---- MODULE Spec2Model ----
(***************************************************************************)
(* A model of fpipeline's variable scopes (contexts.py), placeholders      *)
(* (variables.py), value resolver and pipeline composer (functions.py).    *)
(* The single-file variant fpipeline.py has the same lookups, close() and  *)
(* with-statements, without parent scopes and without Resource.            *)
(*                                                                         *)
(* Four specifications share the state: Spec (one scope without parent),   *)
(* SpecWith (with-statements and resources), SpecNest (a chain of nested   *)
(* scopes) and SpecPipe (pipelines).                                       *)
(***************************************************************************)
EXTENDS Integers, Sequences, FiniteSets, TLC

\* ------------------------------------------------------------------ bounds
MaxScopes == 1        \* scopes opened by with-statements in SpecWith
MaxChain == 3         \* length of the chain of nested scopes in SpecNest
MaxHeap == 2          \* placeholder objects ever constructed
MaxArgs == 1          \* names passed to one variable()/attribute() call
MaxSteps == 2         \* steps passed to one pipeline(...) call
MaxResources == 1     \* Resource(...) constructions attempted
RecursionLimit == 12  \* interpreter frames available to eval_vars
MaxLinks == 10        \* placeholders chained value to value in SpecEval
MaxNest == 11         \* containers nested one in the other in SpecEval

\* --------------------------------------------------------- python values
\* Every value is a record of one shape: k is the runtime type, n an integer
\* payload (the int itself, a placeholder's heap address, a function's id),
\* items the elements of a container and keys the keys of a mapping.
V(k, n, items, keys) == [k |-> k, n |-> n, items |-> items, keys |-> keys]

NoneV == V("none", 0, <<>>, <<>>)
IntV(n) == V("int", n, <<>>, <<>>)
PhV(p) == V("ph", p, <<>>, <<>>)
FnV(f) == V("fn", f, <<>>, <<>>)
BoolV(b) == V("bool", IF b THEN 1 ELSE 0, <<>>, <<>>)
ListV(items) == V("list", 0, items, <<>>)
TupleV(items) == V("tuple", 0, items, <<>>)
NamedTupleV(items) == V("namedtuple", 0, items, <<>>)
DictV(keys, items) == V("dict", 0, items, keys)
SetV(items) == V("set", 0, items, <<>>)
FrozenSetV(items) == V("frozenset", 0, items, <<>>)
\* The step made by store(var, step): n is the address of var, items holds
\* the second argument.
StoreV(p, src) == V("store", p, <<src>>, <<>>)
\* The step made by curry(step_fn, *args, **kwargs): n is the function,
\* items the positional arguments, keys the values of the keyword arguments.
CurryV(f, args, kwargs) == V("curry", f, args, kwargs)
\* The conditions made by or_(*conditions) and and_(*conditions), and the
\* step made by if_(cond_, then_, else_): a branch is a step, a list of
\* steps, or None.
OrV(conditions) == V("or_", 0, conditions, <<>>)
AndV(conditions) == V("and_", 0, conditions, <<>>)
IfV(cond_, then_, else_) == V("if_", 0, <<cond_, then_, else_>>, <<>>)
\* Not a Python value: marks an attribute or key that does not exist.
Absent == V("absent", 0, <<>>, <<>>)

Containers == {"list", "tuple", "namedtuple", "dict", "set", "frozenset"}

\* bool(v): None, False, 0 and the empty containers are false; functions
\* and placeholders, which define neither __bool__ nor __len__, are true.
Truthy(v) ==
  CASE v.k = "none" -> FALSE
    [] v.k \in {"bool", "int"} -> v.n # 0
    [] v.k \in Containers -> v.items # <<>>
    [] OTHER -> TRUE

\* ------------------------------------------------------------ the targets
Names == {"value", "a2"}
FieldNames == Names \cup {"close"}
ObjT == 1
DictT == 2
SelfT(s) == 2 + s
TargetIds == 1..(2 + MaxScopes)

\* An object (test Ctx) or a dict holding value=7 and nothing under "a2".
NoFields == [f \in FieldNames |-> Absent]
InitFields == [NoFields EXCEPT !["value"] = IntV(7)]

\* ------------------------------------------------------------------ state
VARIABLES scopes, heap, targets, resources, lastOp
vars == <<scopes, heap, targets, resources, lastOp>>

\* ---------------------------------------------------- results of a call
Ret(v) == [val |-> v, err |-> "", calls |-> <<>>]
Raise(e) == [val |-> NoneV, err |-> e, calls |-> <<>>]

\* Attribute.__get and the plain instance attribute of a Variable.
get_value(H, T, p) ==
  LET o == H[p] IN
  IF o.kind = "Variable"
  THEN IF o.hasValue THEN Ret(o.value) ELSE Raise("AttributeError")
  ELSE IF o.target = 0 THEN Raise("AttributeError")
  ELSE LET x == T[o.target].fields[o.name] IN
       IF x # Absent THEN Ret(x)
       ELSE IF T[o.target].isDict THEN Raise("KeyError")
       ELSE Raise("AttributeError")

\* The plain functions used as steps and thunks.  Each returns a fixed value
\* or raises; the call itself is what is observed (the calls log).
\* 1 returns 7, 2 returns itself, 3 returns the first placeholder constructed
\* (it is a closure over it), 4 raises.
StepIds == 1..4
StepDef(f) ==
  CASE f = 1 -> Ret(IntV(7))
    [] f = 2 -> Ret(FnV(2))
    [] f = 3 -> Ret(PhV(1))
    [] OTHER -> Raise("RuntimeError")

\* One entry of the calls log: function fn was called by `by` with ctx and,
\* after it, the positional arguments args and the keyword arguments kw.
CallRec(f, ctx, by, args, kw) ==
  [fn |-> f, ctx |-> ctx, by |-> by, args |-> args, kw |-> kw]

\* A call that is made twice.
Call_twice(f, ctx) ==
  [StepDef(f) EXCEPT !.calls = <<CallRec(f, ctx, "eval_vars", <<>>, <<>>),
                                 CallRec(f, ctx, "eval_vars", <<>>, <<>>)>>]

\* case _ if callable(val): return val(ctx)
Call(f, ctx) ==
  [StepDef(f) EXCEPT !.calls = <<CallRec(f, ctx, "eval_vars", <<>>, <<>>)>>]

RECURSIVE Dedup(_)
Dedup(items) ==
  IF items = <<>> THEN <<>>
  ELSE LET rest == Dedup(Tail(items)) IN
       IF \E i \in 1..Len(rest) : rest[i] = Head(items)
       THEN rest ELSE <<Head(items)>> \o rest

\* A rebuild that forgets the type of the container and makes a list.
Rebuild_untyped(val, items) == ListV(items)

\* The container of the same type as val made of the resolved items.
Rebuild(val, items) ==
  IF val.k \in {"set", "frozenset"} THEN [val EXCEPT !.items = Dedup(items)]
  ELSE [val EXCEPT !.items = items]

\* hash(v) succeeds: lists, dicts and sets are unhashable, and so is a tuple
\* or frozenset that holds one; placeholders and functions hash by identity.
RECURSIVE Hashable(_)
Hashable(v) ==
  /\ v.k \notin {"list", "dict", "set"}
  /\ v.k \in {"tuple", "namedtuple", "frozenset"} =>
       \A i \in 1..Len(v.items) : Hashable(v.items[i])

\* The functions handed to curry and to the decorators, called as
\* step_fn(ctx, *args, **kwargs): 5 returns the tuple of its positional
\* arguments, 6 returns its keyword argument (None when it has none), 7
\* returns the first placeholder constructed (a closure over it); 8 and 9
\* are the conditions true and false of the tests.
CurryFnIds == 5..7
CondFnIds == 8..9
FnDef(f, args, kw) ==
  CASE f = 5 -> Ret(TupleV(args))
    [] f = 6 -> Ret(IF kw = <<>> THEN NoneV ELSE kw[1])
    [] f = 8 -> Ret(BoolV(TRUE))
    [] f = 9 -> Ret(BoolV(FALSE))
    [] OTHER -> Ret(PhV(1))

RECURSIVE eval_vars(_, _, _, _, _)
RECURSIVE eval_items(_, _, _, _, _)
RECURSIVE curry_step(_, _, _, _, _, _)

\* A placeholder case that returns the placeholder's value as it is.
eval_placeholder_once(H, T, ctx, val, depth) == get_value(H, T, val.n)

\* case AbstractVariable(): return eval_vars(ctx, val.value, depth=depth-1)
eval_placeholder(H, T, ctx, val, depth) ==
  LET r == get_value(H, T, val.n) IN
  IF r.err # "" THEN r ELSE eval_vars(H, T, ctx, r.val, depth - 1)

eval_vars(H, T, ctx, val, depth) ==
  IF depth < -RecursionLimit THEN Raise("RecursionError")
  ELSE IF val.k = "ph" THEN eval_placeholder(H, T, ctx, val, depth)
  ELSE IF depth = 0 THEN Ret(val)
  ELSE IF val.k \in Containers THEN
    LET r == eval_items(H, T, ctx, val.items, depth - 1) IN
    IF r.err # "" THEN [val |-> NoneV, err |-> r.err, calls |-> r.calls]
    ELSE IF /\ val.k \in {"set", "frozenset"}
            /\ \E i \in 1..Len(r.items) : ~Hashable(r.items[i])
    THEN [val |-> NoneV, err |-> "TypeError", calls |-> r.calls]
    ELSE [val |-> Rebuild(val, r.items), err |-> "", calls |-> r.calls]
  ELSE IF val.k = "fn" THEN Call(val.n, ctx)
  ELSE IF val.k = "curry"
  THEN curry_step(H, T, val.n, val.items, val.keys, ctx)
  ELSE Ret(val)

\* The comprehensions of eval_vars: elements left to right, stopping at the
\* first one that raises.
eval_items(H, T, ctx, items, depth) ==
  IF items = <<>> THEN [items |-> <<>>, err |-> "", calls |-> <<>>]
  ELSE LET r == eval_vars(H, T, ctx, Head(items), depth) IN
       IF r.err # "" THEN [items |-> <<>>, err |-> r.err, calls |-> r.calls]
       ELSE LET rs == eval_items(H, T, ctx, Tail(items), depth) IN
            [items |-> <<r.val>> \o rs.items, err |-> rs.err,
             calls |-> r.calls \o rs.calls]

DefaultDepth == 10

\* A curried step that returns whatever the function returns.
curry_step_unguarded(H, T, f, args, kw, ctx) ==
  LET x == eval_items(H, T, ctx, args, DefaultDepth) IN
  IF x.err # "" THEN [val |-> NoneV, err |-> x.err, calls |-> x.calls]
  ELSE [FnDef(f, x.items, kw) EXCEPT
          !.calls = x.calls \o <<CallRec(f, ctx, "curry", x.items, kw)>>]

\* A curried step that resolves the keyword arguments as well.
curry_step_kw_resolved(H, T, f, args, kw, ctx) ==
  LET x == eval_items(H, T, ctx, args, DefaultDepth)
      y == eval_items(H, T, ctx, kw, DefaultDepth) IN
  IF x.err # "" THEN [val |-> NoneV, err |-> x.err, calls |-> x.calls]
  ELSE IF y.err # "" THEN [val |-> NoneV, err |-> y.err, calls |-> y.calls]
  ELSE LET r == FnDef(f, x.items, y.items)
           cs == x.calls \o y.calls
                 \o <<CallRec(f, ctx, "curry", x.items, y.items)>> IN
       IF r.val.k = "ph"
       THEN [val |-> NoneV, err |-> "TypeError", calls |-> cs]
       ELSE [val |-> r.val, err |-> "", calls |-> cs]

\* The step returned by curry(step_fn, *args, **kwargs), called with ctx:
\* every positional argument goes through eval_vars, the keyword arguments
\* are passed as they are, and a placeholder coming back is refused.
curry_step(H, T, f, args, kw, ctx) ==
  LET x == eval_items(H, T, ctx, args, DefaultDepth) IN
  IF x.err # "" THEN [val |-> NoneV, err |-> x.err, calls |-> x.calls]
  ELSE LET r == FnDef(f, x.items, kw)
           cs == x.calls \o <<CallRec(f, ctx, "curry", x.items, kw)>> IN
       IF r.err # "" THEN [r EXCEPT !.calls = cs]
       ELSE IF r.val.k = "ph"
       THEN [val |-> NoneV, err |-> "TypeError", calls |-> cs]
       ELSE [val |-> r.val, err |-> "", calls |-> cs]

\* ------------------------------------------------------- the object graph
\* scopes[s]: a VariableContext (cls "VariableContext") or PipelineContext.
\*   vars is the _variables dict in insertion order; mode tells whether the
\*   object was made by a with-statement ("with": inside the body, "left":
\*   the body has been left) or constructed directly ("plain").
\* heap[p]: a placeholder object.  A Variable has the instance attribute
\*   value iff hasValue; an Attribute has the instance attribute target iff
\*   target # 0.  owner is the scope whose call constructed the object.
NewVariable(name, s) ==
  [kind |-> "Variable", name |-> name, hasValue |-> FALSE, value |-> Absent,
   target |-> 0, owner |-> s]
NewVariableWith(name, v, s) ==
  [kind |-> "Variable", name |-> name, hasValue |-> TRUE, value |-> v,
   target |-> 0, owner |-> s]
NewAttribute(t, name, s) ==
  [kind |-> "Attribute", name |-> name, hasValue |-> FALSE, value |-> Absent,
   target |-> t, owner |-> s]

InReg(sc, name) == \E i \in 1..Len(sc.vars) : sc.vars[i].name = name
RegGet(sc, name) ==
  sc.vars[CHOOSE i \in 1..Len(sc.vars) : sc.vars[i].name = name].ph

\* var = <constructor>; self._variables[name] = var
Register(st, s, obj) ==
  LET p == Len(st.heap) + 1 IN
  [st |-> [scopes |-> [st.scopes EXCEPT ![s].vars =
                         Append(@, [name |-> obj.name, ph |-> p])],
           heap |-> Append(st.heap, obj)],
   ret |-> p]

\* VariableContext.variable(name, create=...) with a single name: the inner
\* find.  The parent is asked through parent.variable(name, _cls=_cls), that
\* is, with create left at its default True.
RECURSIVE variable_find(_, _, _, _)
variable_find(st, s, name, create) ==
  LET sc == st.scopes[s] IN
  IF InReg(sc, name) THEN [st |-> st, ret |-> RegGet(sc, name)]
  ELSE LET up == IF sc.parent # 0
                 THEN variable_find(st, sc.parent, name, TRUE)
                 ELSE [st |-> st, ret |-> 0] IN
       IF up.ret # 0 THEN up
       ELSE IF ~create THEN [st |-> st, ret |-> 0]
       ELSE Register(st, s, NewVariable(name, s))

\* The find of variables(), attribute() and attributes(): the parent is
\* asked through parent.variable(name, create=False); what is constructed on
\* a miss differs.
find_in_parent(st, s, name, create, obj) ==
  LET sc == st.scopes[s] IN
  IF InReg(sc, name) THEN [st |-> st, ret |-> RegGet(sc, name)]
  ELSE LET up == IF sc.parent # 0
                 THEN variable_find(st, sc.parent, name, FALSE)
                 ELSE [st |-> st, ret |-> 0] IN
       IF up.ret # 0 THEN up
       ELSE IF ~create THEN [st |-> st, ret |-> 0]
       ELSE Register(st, s, obj)

variables_find(st, s, name, create) ==
  find_in_parent(st, s, name, create, NewVariable(name, s))
attribute_find(st, s, name, create) ==
  find_in_parent(st, s, name, create,
                 NewAttribute(st.scopes[s].target, name, s))
attributes_find(st, s, name, create) ==
  find_in_parent(st, s, name, create, NewVariable(name, s))

find(op, st, s, name, create) ==
  CASE op = "variable" -> variable_find(st, s, name, create)
    [] op = "variables" -> variables_find(st, s, name, create)
    [] op = "attribute" -> attribute_find(st, s, name, create)
    [] OTHER -> attributes_find(st, s, name, create)

\* tuple(find(name) for name in names)
RECURSIVE find_all(_, _, _, _, _)
find_all(op, st, s, names, create) ==
  IF names = <<>> THEN [st |-> st, ret |-> <<>>]
  ELSE LET r == find(op, st, s, Head(names), create)
           rs == find_all(op, r.st, s, Tail(names), create) IN
       [st |-> rs.st, ret |-> <<r.ret>> \o rs.ret]

\* delattr(var, 'value'): a Variable loses its value, an Attribute (through
\* the property's deleter, Attribute.__del) loses its target.
Detach(H, p) ==
  IF H[p].kind = "Variable"
  THEN [H EXCEPT ![p].hasValue = FALSE, ![p].value = Absent]
  ELSE [H EXCEPT ![p].target = 0]

\* The loop of VariableContext.close.  hasattr(var, 'value') runs the
\* getter: AttributeError means False, any other exception leaves the loop.
\* No Resource is ever in a registry (its constructor raises), so the
\* isinstance(var, Resource) branch is never taken.
RECURSIVE close_loop(_, _, _)
close_loop(H, T, entries) ==
  IF entries = <<>> THEN [heap |-> H, err |-> ""]
  ELSE LET p == Head(entries).ph
           g == get_value(H, T, p) IN
       IF g.err = "" THEN close_loop(Detach(H, p), T, Tail(entries))
       ELSE IF g.err = "AttributeError" THEN close_loop(H, T, Tail(entries))
       ELSE [heap |-> H, err |-> g.err]

\* A close() that goes on through the registry of the parent.
close_with_parent(S, H, T, s) ==
  LET r == close_loop(H, T, S[s].vars \o
                              (IF S[s].parent = 0 THEN <<>>
                               ELSE S[S[s].parent].vars)) IN
  IF r.err # "" THEN [scopes |-> S, heap |-> r.heap, err |-> r.err]
  ELSE [scopes |-> [S EXCEPT ![s].vars = <<>>, ![s].closed = TRUE],
        heap |-> r.heap, err |-> ""]

\* scope.close(): the attribute lookup of close on the instance comes first
\* (an instance attribute named close hides the method).
close(S, H, T, s) ==
  IF S[s].cls = "PipelineContext" /\ T[S[s].target].fields["close"] # Absent
  THEN [scopes |-> S, heap |-> H, err |-> "TypeError"]
  ELSE LET r == close_loop(H, T, S[s].vars) IN
       IF r.err # "" THEN [scopes |-> S, heap |-> r.heap, err |-> r.err]
       ELSE [scopes |-> [S EXCEPT ![s].vars = <<>>, ![s].closed = TRUE],
             heap |-> r.heap, err |-> ""]

\* ------------------------------------------------ what the last call did
\* lastOp records the most recent call: its arguments, what it returned
\* (ret: the placeholders returned, 0 for None; val: a returned value; kv:
\* the Variable of the returned keyword dict), the exception it raised
\* (outcome, "ok" for none) and the functions it invoked (calls).
NoOp ==
  [op |-> "none", s |-> 0, names |-> <<>>, create |-> TRUE, ret |-> <<>>,
   kv |-> 0, p |-> 0, outcome |-> "ok", val |-> NoneV, calls |-> <<>>,
   how |-> "", arg |-> NoneV, steps |-> <<>>, ctx |-> 0, depth |-> 0]

Outcome(err) == IF err = "" THEN "ok" ELSE err

NameSeqs == UNION {[1..n -> Names] : n \in 1..MaxArgs}
KwSets == {<<>>, <<"a2">>}
InitialKw == {<<>>, <<"value">>, <<"closed">>, <<"close">>, <<"parent">>}
Reserved == {"target", "parent", "_variables", "closed"}
WriteVals == {IntV(5)}
ScopeIds == 1..Len(scopes)
HeapIds == 1..Len(heap)

NewScope(cls, t, par, mode) ==
  [cls |-> cls, target |-> t, parent |-> par, vars |-> <<>>,
   closed |-> FALSE, mode |-> mode]

\* The object and the dict hold value=7.
InitTargets ==
  [t \in TargetIds |->
     [isDict |-> t = DictT,
      fields |-> IF t \in {ObjT, DictT} THEN InitFields ELSE NoFields]]

\* No placeholder and no resource yet.
InitState(S) ==
  /\ scopes = S
  /\ heap = <<>>
  /\ targets = InitTargets
  /\ resources = <<>>
  /\ lastOp = NoOp

\* Nothing constructed yet.
Init == InitState(<<>>)

\* VariableContext(target, parent=par): the dataclass constructor.
VariableContext_init(t, par) ==
  /\ scopes' = Append(scopes, NewScope("VariableContext", t, par, "plain"))
  /\ lastOp' = [NoOp EXCEPT !.op = "VariableContext", !.s = Len(scopes) + 1]
  /\ UNCHANGED <<heap, targets, resources>>

\* The keyword arguments that reach **initial_variables: parent is a named
\* parameter of __init__, so parent=None is taken as the parent (None, as
\* by default) and never seen as an initial variable.
InitialVariables(initial) == SelectSeq(initial, LAMBDA name : name # "parent")

\* PipelineContext.__init__: the target is the object itself; each initial
\* variable is checked against vars(self) and then set on the object.
PipelineContext_new(S, T, par, initial, mode) ==
  LET s == Len(S) + 1
      kw == InitialVariables(initial) IN
  IF \E i \in 1..Len(kw) : kw[i] \in Reserved
  THEN [scopes |-> S, targets |-> T, err |-> "ValueError"]
  ELSE [scopes |-> Append(S, NewScope("PipelineContext", SelfT(s), par, mode)),
        targets |-> [T EXCEPT ![SelfT(s)].fields =
                       [f \in FieldNames |->
                          IF \E i \in 1..Len(kw) : kw[i] = f
                          THEN IntV(5) ELSE @[f]]],
        err |-> ""]

PipelineContext_init(par, initial) ==
  /\ LET r == PipelineContext_new(scopes, targets, par, initial, "plain") IN
     /\ scopes' = r.scopes
     /\ targets' = r.targets
     /\ lastOp' = [NoOp EXCEPT !.op = "PipelineContext", !.names = initial,
                               !.s = IF r.err = "" THEN Len(scopes) + 1 ELSE 0,
                               !.outcome = Outcome(r.err)]
  /\ UNCHANGED <<heap, resources>>

\* with variables(target) as vctx: up to the yield.
with_variables(t) ==
  /\ scopes' = Append(scopes, NewScope("VariableContext", t, 0, "with"))
  /\ lastOp' = [NoOp EXCEPT !.op = "with variables", !.s = Len(scopes) + 1]
  /\ UNCHANGED <<heap, targets, resources>>

\* with context(**initial) as vctx: up to the yield; when the constructor
\* raises, the body is never entered.
with_context(initial) ==
  /\ LET r == PipelineContext_new(scopes, targets, 0, initial, "with") IN
     /\ scopes' = r.scopes
     /\ targets' = r.targets
     /\ lastOp' = [NoOp EXCEPT !.op = "with context", !.names = initial,
                               !.s = IF r.err = "" THEN Len(scopes) + 1 ELSE 0,
                               !.outcome = Outcome(r.err)]
  /\ UNCHANGED <<heap, resources>>

\* Control leaves the body of the innermost with-statement: the finally
\* clause of the generator runs vctx.close().  An exception of close()
\* replaces the one of the body; otherwise the body's exception propagates.
leave_with(s, how) ==
  /\ scopes[s].mode = "with"
  /\ \A s2 \in ScopeIds : s2 > s => scopes[s2].mode # "with"
  /\ LET r == close(scopes, heap, targets, s) IN
     /\ scopes' = [r.scopes EXCEPT ![s].mode = "left"]
     /\ heap' = r.heap
     /\ lastOp' = [NoOp EXCEPT !.op = "leave with", !.s = s, !.how = how,
                     !.outcome = IF r.err # "" THEN r.err
                                 ELSE IF how = "raise" THEN "BodyError"
                                 ELSE "ok"]
  /\ UNCHANGED <<targets, resources>>

\* vctx.close() called directly.
scope_close(s) ==
  /\ LET r == close(scopes, heap, targets, s) IN
     /\ scopes' = r.scopes
     /\ heap' = r.heap
     /\ lastOp' = [NoOp EXCEPT !.op = "close", !.s = s,
                               !.outcome = Outcome(r.err)]
  /\ UNCHANGED <<targets, resources>>

\* The four lookups.  variable() and attribute() return the placeholder
\* itself for one name and a tuple for more; variables() and attributes()
\* always return a tuple, followed by {k: Variable(k, v)} when keyword
\* arguments were given.  ret lists the placeholders in either case.
Lookup(op, s, names, create, kw) ==
  LET r == find_all(op, [scopes |-> scopes, heap |-> heap], s, names, create)
      H2 == IF kw = <<>> THEN r.st.heap
            ELSE Append(r.st.heap, NewVariableWith(kw[1], IntV(5), s)) IN
  /\ Len(H2) <= MaxHeap
  /\ scopes' = r.st.scopes
  /\ heap' = H2
  /\ lastOp' = [NoOp EXCEPT !.op = op, !.s = s, !.names = names,
                            !.create = create, !.ret = r.ret,
                            !.kv = IF kw = <<>> THEN 0 ELSE Len(H2)]
  /\ UNCHANGED <<targets, resources>>

variable(s, names, create) == Lookup("variable", s, names, create, <<>>)
variables(s, names, create, kw) == Lookup("variables", s, names, create, kw)
attribute(s, names, create) == Lookup("attribute", s, names, create, <<>>)
attributes(s, names, create, kw) == Lookup("attributes", s, names, create, kw)

\* x = p.value
value_get(p) ==
  /\ LET r == get_value(heap, targets, p) IN
     lastOp' = [NoOp EXCEPT !.op = "get", !.p = p, !.val = r.val,
                            !.outcome = Outcome(r.err)]
  /\ UNCHANGED <<scopes, heap, targets, resources>>

\* An Attribute setter that resolves the value and returns it, but leaves the
\* target as it is.
Attribute_set_unstored(H, T, p, v) ==
  IF H[p].target = 0 THEN [targets |-> T, r |-> Raise("AttributeError")]
  ELSE [targets |-> T, r |-> eval_vars(H, T, H[p].target, v, DefaultDepth)]

\* Attribute.__set: resolve against the target, then store in the target.
Attribute_set(H, T, p, v) ==
  IF H[p].target = 0 THEN [targets |-> T, r |-> Raise("AttributeError")]
  ELSE LET r == eval_vars(H, T, H[p].target, v, DefaultDepth) IN
       IF r.err # "" THEN [targets |-> T, r |-> r]
       ELSE [targets |-> [T EXCEPT ![H[p].target].fields[H[p].name] = r.val],
             r |-> r]

\* An assignment that resolves the value for a Variable as well.
set_value_resolved(H, T, p, v) ==
  IF H[p].kind = "Variable"
  THEN LET r == eval_vars(H, T, 0, v, DefaultDepth) IN
       [heap |-> IF r.err = "" THEN [H EXCEPT ![p].hasValue = TRUE,
                                               ![p].value = r.val]
                 ELSE H,
        targets |-> T, r |-> r]
  ELSE LET w == Attribute_set(H, T, p, v) IN
       [heap |-> H, targets |-> w.targets, r |-> w.r]

\* p.value = v.  On a Variable this is a plain instance attribute, which
\* takes v as it is; on an Attribute it is the property's setter.
set_value(H, T, p, v) ==
  IF H[p].kind = "Variable"
  THEN [heap |-> [H EXCEPT ![p].hasValue = TRUE, ![p].value = v],
        targets |-> T, r |-> Ret(v)]
  ELSE LET w == Attribute_set(H, T, p, v) IN
       [heap |-> H, targets |-> w.targets, r |-> w.r]

value_set(p, v) ==
  /\ LET w == set_value(heap, targets, p, v) IN
     /\ heap' = w.heap
     /\ targets' = w.targets
     /\ lastOp' = [NoOp EXCEPT !.op = "set", !.p = p, !.arg = v,
                     !.val = w.r.val, !.calls = w.r.calls,
                     !.outcome = Outcome(w.r.err)]
  /\ UNCHANGED <<scopes, resources>>

\* Resource.__init__(name, resource), called inside scope s.  The match
\* enters the resource; super().__init__(name, value) then reaches
\* object.__init__ with two extra arguments, which raises TypeError, so no
\* Resource object ever exists and nothing is left to exit the resource.
Resource_init(s, kind) ==
  /\ resources' = Append(resources,
       [scope |-> s, kind |-> kind,
        entered |-> IF kind = "other" THEN 0 ELSE 1,
        released |-> 0,
        outcome |-> IF kind = "other" THEN "ValueError" ELSE "TypeError"])
  /\ lastOp' = [NoOp EXCEPT !.op = "Resource", !.s = s,
                  !.outcome = IF kind = "other" THEN "ValueError"
                              ELSE "TypeError"]
  /\ UNCHANGED <<scopes, heap, targets>>

\* Calling a step that changes nothing itself: a plain function, a
\* placeholder (AbstractVariable.__call__ returns its value) or a curried
\* step.  `by` names the caller in the calls log.
call_step(H, T, step, ctx, by) ==
  CASE step.k = "fn" ->
         [StepDef(step.n) EXCEPT
            !.calls = <<CallRec(step.n, ctx, by, <<>>, <<>>)>>]
    [] step.k = "ph" -> get_value(H, T, step.n)
    [] OTHER -> curry_step(H, T, step.n, step.items, step.keys, ctx)

Callable(v) == v.k \in {"fn", "ph", "curry", "store"}

\* What a step leaves behind: its result, and the placeholders and targets
\* as it left them.
Outcome3(r, H, T) ==
  [val |-> r.val, err |-> r.err, calls |-> r.calls, heap |-> H, targets |-> T]

\* return var.value, after the assignment w, with the calls made so far.
store_return(H, T, p, calls, w) ==
  IF w.r.err # ""
  THEN Outcome3([w.r EXCEPT !.calls = calls \o w.r.calls], H, T)
  ELSE Outcome3([get_value(w.heap, w.targets, p) EXCEPT
                   !.calls = calls \o w.r.calls],
                w.heap, w.targets)

\* var.value = e, for the outcome e of eval_vars.
store_assign(H, T, p, calls, e) ==
  IF e.err # "" THEN Outcome3([e EXCEPT !.calls = calls \o e.calls], H, T)
  ELSE store_return(H, T, p, calls \o e.calls, set_value(H, T, p, e.val))

\* eval_vars(ctx, x), for the outcome c of x = step(ctx).
store_resolve(H, T, p, ctx, c) ==
  IF c.err # "" THEN Outcome3(c, H, T)
  ELSE store_assign(H, T, p, c.calls,
                    eval_vars(H, T, ctx, c.val, DefaultDepth))

\* A store that assigns the outcome of the step without resolving it.
store_unresolved(H, T, p, src, ctx) ==
  store_assign(H, T, p, <<>>,
               IF Callable(src) THEN call_step(H, T, src, ctx, "store")
               ELSE Ret(src))

\* store(var, step)(ctx), the body of store_: var is the placeholder at p.
\* The second argument is a step (not itself a store step) or a literal.
store_(H, T, p, src, ctx) ==
  store_resolve(H, T, p, ctx,
                IF Callable(src) THEN call_step(H, T, src, ctx, "store")
                ELSE Ret(src))

\* r with the calls made before it put in front of its own.
After(calls, r) == [r EXCEPT !.calls = calls \o @]

\* An or_ that goes on to the next condition whatever the last one gave.
RECURSIVE or_(_, _, _, _, _)
or_next_unstopped(H, T, conditions, ctx, calls, r) ==
  IF r.err # "" THEN After(calls, r)
  ELSE or_(H, T, conditions, ctx, calls \o r.calls)

\* The loop of or_'s cond after one condition has given r: return True when
\* r is true, else go on with the conditions that are left.
or_next(H, T, conditions, ctx, calls, r) ==
  IF r.err # "" THEN After(calls, r)
  ELSE IF Truthy(r.val) THEN After(calls \o r.calls, Ret(BoolV(TRUE)))
  ELSE or_(H, T, conditions, ctx, calls \o r.calls)

\* or_(*conditions)(ctx): for lcond in conditions: if lcond(ctx): return
\* True; return False.  A condition is a plain function, a placeholder or a
\* curried step; calls holds the calls made so far.
or_(H, T, conditions, ctx, calls) ==
  IF conditions = <<>> THEN After(calls, Ret(BoolV(FALSE)))
  ELSE or_next(H, T, Tail(conditions), ctx, calls,
               call_step(H, T, Head(conditions), ctx, "or_"))

\* all(...) after one condition has given r: False when r is false, else
\* on to the next one.
RECURSIVE and_(_, _, _, _, _)
and_next(H, T, conditions, ctx, calls, r) ==
  IF r.err # "" THEN After(calls, r)
  ELSE IF ~Truthy(r.val) THEN After(calls \o r.calls, Ret(BoolV(FALSE)))
  ELSE and_(H, T, conditions, ctx, calls \o r.calls)

\* and_(*conditions)(ctx): all((lcond(ctx) for lcond in conditions)).
and_(H, T, conditions, ctx, calls) ==
  IF conditions = <<>> THEN After(calls, Ret(BoolV(TRUE)))
  ELSE and_next(H, T, Tail(conditions), ctx, calls,
                call_step(H, T, Head(conditions), ctx, "and_"))

RECURSIVE invoke(_, _, _, _, _)
RECURSIVE run_pipeline(_, _, _, _)

\* The selected branch of if_step: None gives None, a list was made a
\* pipeline by if_, a step is called.
if_run(H, T, branch, ctx, calls) ==
  IF branch.k = "none" THEN Outcome3(After(calls, Ret(NoneV)), H, T)
  ELSE IF branch.k = "list"
  THEN After(calls, run_pipeline(H, T, branch.items, ctx))
  ELSE After(calls, invoke(H, T, branch, ctx, "if_"))

\* An if_step that runs the else-branch when the condition is true.
if_select_swapped(H, T, then_, else_, ctx, r) ==
  IF r.err # "" THEN Outcome3(r, H, T)
  ELSE if_run(H, T, IF Truthy(r.val) THEN else_ ELSE then_, ctx, r.calls)

\* if_step after cond_(ctx) has given r.
if_select(H, T, then_, else_, ctx, r) ==
  IF r.err # "" THEN Outcome3(r, H, T)
  ELSE if_run(H, T, IF Truthy(r.val) THEN then_ ELSE else_, ctx, r.calls)

\* if_(cond_, then_, else_)(ctx), the body of if_step.
if_step(H, T, cond_, then_, else_, ctx) ==
  if_select(H, T, then_, else_, ctx, call_step(H, T, cond_, ctx, "if_"))

\* fun(ctx) for any step.
invoke(H, T, step, ctx, by) ==
  CASE step.k = "store" -> store_(H, T, step.n, step.items[1], ctx)
    [] step.k = "if_" ->
         if_step(H, T, step.items[1], step.items[2], step.items[3], ctx)
    [] step.k = "or_" -> Outcome3(or_(H, T, step.items, ctx, <<>>), H, T)
    [] step.k = "and_" -> Outcome3(and_(H, T, step.items, ctx, <<>>), H, T)
    [] OTHER -> Outcome3(call_step(H, T, step, ctx, by), H, T)

\* result = fun(ctx) for fun in steps, in order; an exception ends the loop.
\* result carries the state the steps run in, and the calls made so far.
RECURSIVE run_steps(_, _, _)
RECURSIVE run_rest(_, _, _, _)
run_steps(steps, ctx, result) ==
  IF steps = <<>> THEN result
  ELSE run_rest(Tail(steps), ctx, result.calls,
                invoke(result.heap, result.targets, Head(steps), ctx,
                       "pipeline"))

\* The loop after one step has given r.
run_rest(steps, ctx, calls, r) ==
  IF r.err # "" THEN [r EXCEPT !.calls = calls \o @]
  ELSE run_steps(steps, ctx, [r EXCEPT !.calls = calls \o @])

\* A pipeline that returns the last result as it is, unresolved.
run_pipeline_unresolved(H, T, steps, ctx) ==
  run_steps(steps, ctx, Outcome3(Ret(NoneV), H, T))

\* return eval_vars(ctx, result), for the result r of the loop.
run_return(ctx, r) ==
  IF r.err # "" THEN r
  ELSE Outcome3([eval_vars(r.heap, r.targets, ctx, r.val, DefaultDepth)
                   EXCEPT !.calls = r.calls \o @],
                r.heap, r.targets)

\* pipeline(*steps)(ctx): the body of run_pipeline.
run_pipeline(H, T, steps, ctx) ==
  run_return(ctx, run_steps(steps, ctx, Outcome3(Ret(NoneV), H, T)))

StepSeqs == UNION {[1..n -> {FnV(f) : f \in StepIds}] : n \in 0..MaxSteps}
\* A step that refers to a placeholder exists once the placeholder does:
\* function 3 and function 7 are closures over the first one constructed.
RECURSIVE Refs(_)
Refs(v) ==
  (IF v.k \in {"ph", "store"} THEN {v.n}
   ELSE IF v.k = "fn" /\ v.n = 3 THEN {1}
   ELSE IF v.k = "curry" /\ v.n = 7 THEN {1}
   ELSE {})
  \cup UNION {Refs(v.items[i]) : i \in 1..Len(v.items)}
  \cup (IF v.k = "curry"
        THEN UNION {Refs(v.keys[i]) : i \in 1..Len(v.keys)} ELSE {})
StepsUsable(steps) ==
  \A i \in 1..Len(steps) : Refs(steps[i]) \subseteq HeapIds
Contexts == {scopes[s].target : s \in ScopeIds}

\* The state after a step or a pipeline called as op has given r.
Returned(op, s, ctx, steps, r) ==
  /\ heap' = r.heap
  /\ targets' = r.targets
  /\ lastOp' = [NoOp EXCEPT !.op = op, !.s = s, !.ctx = ctx, !.steps = steps,
                  !.val = r.val, !.calls = r.calls,
                  !.outcome = Outcome(r.err)]
  /\ UNCHANGED <<scopes, resources>>

pipeline(ctx, steps) ==
  /\ StepsUsable(steps)
  /\ Returned("pipeline", 0, ctx, steps,
              run_pipeline(heap, targets, steps, ctx))

\* vctx.pipeline(*steps): pipeline(*steps)(self.target)
VariableContext_pipeline(s, steps) ==
  /\ StepsUsable(steps)
  /\ Returned("vctx.pipeline", s, scopes[s].target, steps,
              run_pipeline(heap, targets, steps, scopes[s].target))

\* ------------------------------------------------------- specifications
\* One scope without a parent, constructed on an object or on a dict.
InitOne ==
  \E t \in {ObjT, DictT} :
    InitState(<<NewScope("VariableContext", t, 0, "plain")>>)

\* Spec: the life cycle of a scope that has no parent: lookups, reads and
\* writes of placeholders, close(), and use after close().
Next ==
  \/ \E s \in ScopeIds : scope_close(s)
  \/ \E s \in ScopeIds, names \in NameSeqs, create \in BOOLEAN : variable(s, names, create)
  \/ \E s \in ScopeIds, names \in NameSeqs, create \in BOOLEAN, kw \in KwSets : variables(s, names, create, kw)
  \/ \E s \in ScopeIds, names \in NameSeqs, create \in BOOLEAN : attribute(s, names, create)
  \/ \E s \in ScopeIds, names \in NameSeqs, create \in BOOLEAN, kw \in KwSets : attributes(s, names, create, kw)
  \/ \E p \in HeapIds : value_get(p)
  \/ \E p \in HeapIds, v \in WriteVals : value_set(p, v)

Spec == InitOne /\ [][Next]_vars

\* SpecWith: scopes opened by the with-statements, left on every exit path,
\* and the resources constructed inside them.
NextWith ==
  \/ /\ Len(scopes) < MaxScopes
     /\ \E t \in {ObjT, DictT} : with_variables(t)
  \/ /\ Len(scopes) < MaxScopes
     /\ \E initial \in InitialKw : with_context(initial)
  \/ /\ Len(scopes) < MaxScopes
     /\ \E initial \in InitialKw : PipelineContext_init(0, initial)
  \/ \E s \in ScopeIds, how \in {"fall", "return", "raise"} : leave_with(s, how)
  \/ \E s \in ScopeIds : scope_close(s)
  \/ \E s \in ScopeIds, names \in NameSeqs : variable(s, names, TRUE)
  \/ \E s \in ScopeIds, names \in NameSeqs : attribute(s, names, TRUE)
  \/ \E p \in HeapIds, v \in WriteVals : value_set(p, v)
  \/ /\ Len(resources) < MaxResources
     /\ \E s \in ScopeIds, kind \in {"Closeable", "ContextManager", "other"} :
          Resource_init(s, kind)

SpecWith == Init /\ [][NextWith]_vars

\* SpecNest: a chain of nested scopes on one target, each scope the child of
\* the one constructed before it.
NextNest ==
  \/ /\ Len(scopes) < MaxChain
     /\ VariableContext_init(ObjT, Len(scopes))
  \/ \E s \in ScopeIds, names \in NameSeqs, create \in BOOLEAN : variable(s, names, create)
  \/ \E s \in ScopeIds, names \in NameSeqs, create \in BOOLEAN : variables(s, names, create, <<>>)
  \/ \E s \in ScopeIds, names \in NameSeqs, create \in BOOLEAN : attribute(s, names, create)
  \/ \E s \in ScopeIds, names \in NameSeqs, create \in BOOLEAN : attributes(s, names, create, <<>>)

SpecNest == Init /\ [][NextNest]_vars

\* SpecPipe: pipelines run against the target of one scope.
NextPipe ==
  \/ \E s \in ScopeIds, names \in NameSeqs : variable(s, names, TRUE)
  \/ \E s \in ScopeIds, names \in NameSeqs : attribute(s, names, TRUE)
  \/ \E p \in HeapIds, v \in WriteVals : value_set(p, v)
  \/ \E ctx \in Contexts, steps \in StepSeqs : pipeline(ctx, steps)
  \/ \E s \in ScopeIds, steps \in StepSeqs : VariableContext_pipeline(s, steps)

SpecPipe == InitOne /\ [][NextPipe]_vars

\* step(ctx) for a step made by curry, by a decorator or by store.
step_call(ctx, step) ==
  /\ StepsUsable(<<step>>)
  /\ Returned("step", 0, ctx, <<step>>,
              invoke(heap, targets, step, ctx, "call"))

\* SpecStep: curried steps, called on their own and in pipelines behind a
\* store, over the placeholders of one scope, which are requested while the
\* scope is open.
InitStep == InitState(<<NewScope("VariableContext", ObjT, 0, "plain")>>)
\* Bound arguments: a placeholder, a list holding one, a plain function.
ArgVals == {PhV(1), ListV(<<PhV(2)>>), FnV(1)}
ArgSeqs == UNION {[1..n -> ArgVals] : n \in 0..MaxArgs}
KwArgs == {<<>>, <<PhV(1)>>}
CurrySteps ==
  {CurryV(f, args, kw) : f \in CurryFnIds, args \in ArgSeqs, kw \in KwArgs}
PipeSteps == {StoreV(1, IntV(5)), CurryV(5, <<PhV(1)>>, <<>>)}
PipeSeqs == UNION {[1..n -> PipeSteps] : n \in 0..MaxSteps}

NextStep ==
  \/ \E s \in ScopeIds, name \in Names :
       ~scopes[s].closed /\ variable(s, <<name>>, TRUE)
  \/ \E s \in ScopeIds, name \in Names :
       ~scopes[s].closed /\ attribute(s, <<name>>, TRUE)
  \/ \E s \in ScopeIds : scope_close(s)
  \/ \E ctx \in Contexts, step \in CurrySteps : step_call(ctx, step)
  \/ \E ctx \in Contexts, steps \in PipeSeqs : pipeline(ctx, steps)

SpecStep == InitStep /\ [][NextStep]_vars

\* SpecStore: store steps into the second placeholder of one scope, called
\* on their own and in pipelines.
\* What is stored: a literal, the first placeholder, plain functions (2
\* returns itself), a literal holding a function that returns a
\* placeholder, and a curried step.
StoreSources ==
  {IntV(5), PhV(1), FnV(1), FnV(2), ListV(<<FnV(3)>>),
   CurryV(5, <<PhV(1)>>, <<>>)}
StoreSteps == {StoreV(2, src) : src \in StoreSources}
StorePipes == UNION {[1..n -> {StoreV(2, PhV(1))}] : n \in 0..MaxSteps}

NextStore ==
  \/ \E s \in ScopeIds, name \in Names :
       ~scopes[s].closed /\ variable(s, <<name>>, TRUE)
  \/ \E s \in ScopeIds, name \in Names :
       ~scopes[s].closed /\ attribute(s, <<name>>, TRUE)
  \/ \E p \in HeapIds, v \in WriteVals : value_set(p, v)
  \/ \E s \in ScopeIds : scope_close(s)
  \/ \E ctx \in Contexts, step \in StoreSteps : step_call(ctx, step)
  \/ \E ctx \in Contexts, steps \in StorePipes : pipeline(ctx, steps)

SpecStore == InitStep /\ [][NextStore]_vars

\* SpecCond: the conditions made by or_ and and_ and the steps made by if_,
\* called with the object of one scope.
\* Conditions: true and false of the tests, a function that returns 7, a
\* curried function that returns None, and a function that raises.
Conditions ==
  {CurryV(8, <<>>, <<>>), CurryV(9, <<>>, <<>>), FnV(1),
   CurryV(6, <<>>, <<>>), FnV(4)}
ConditionSeqs == UNION {[1..n -> Conditions] : n \in 0..MaxSteps}
CondSteps ==
  {OrV(cs) : cs \in ConditionSeqs} \cup {AndV(cs) : cs \in ConditionSeqs}
\* Branches: none, one step, and lists of no, one and two steps.
Branches ==
  {NoneV, FnV(1), FnV(4), ListV(<<>>), ListV(<<FnV(2)>>),
   ListV(<<FnV(1), FnV(2)>>)}
IfSteps ==
  {IfV(c, t, e) : c \in Conditions, t \in Branches, e \in Branches}

NextCond ==
  \/ \E ctx \in Contexts, step \in CondSteps : step_call(ctx, step)
  \/ \E ctx \in Contexts, step \in IfSteps : step_call(ctx, step)

SpecCond == InitStep /\ [][NextCond]_vars

\* SpecValue: reads and writes of the placeholders of one scope, which is a
\* VariableContext on an object or on a dict, or a PipelineContext(value=5).
\* What is written: an int, a function that returns a placeholder, and a
\* placeholder.
AssignedVals == {IntV(5), FnV(3), PhV(1)}

InitValue ==
  \/ InitOne
  \/ LET r == PipelineContext_new(<<>>, InitTargets, 0, <<"value">>, "plain") IN
     /\ scopes = r.scopes
     /\ targets = r.targets
     /\ heap = <<>>
     /\ resources = <<>>
     /\ lastOp = NoOp

NextValue ==
  \/ \E s \in ScopeIds, name \in Names : variable(s, <<name>>, TRUE)
  \/ \E s \in ScopeIds, name \in Names : attribute(s, <<name>>, TRUE)
  \/ \E p \in HeapIds : value_get(p)
  \/ \E p \in HeapIds, v \in AssignedVals : value_set(p, v)
  \/ \E s \in ScopeIds : scope_close(s)

SpecValue == InitValue /\ [][NextValue]_vars

\* SpecEval: eval_vars applied to values built over free-standing
\* placeholders (constructed directly, as the tests do, and owned by no
\* scope).  Placeholder 1 is the leaf x: a Variable, unset at first, or an
\* Attribute of the object's field value.  Placeholders 2..k+1 are Variables
\* chained value to value, the last one holding the tail.
RECURSIVE Nest(_, _)
Nest(n, v) == IF n = 0 THEN v ELSE ListV(<<Nest(n - 1, v)>>)

ChainTails == {IntV(7), ListV(<<PhV(1), IntV(8)>>)}
Chain(k, tail) ==
  [i \in 1..k |->
     NewVariableWith("a2", IF i = k THEN tail ELSE PhV(i + 2), 0)]
Leaves == {NewVariable("value", 0), NewAttribute(ObjT, "value", 0)}

InitEval ==
  \E k \in 0..MaxLinks, tail \in ChainTails, leaf \in Leaves :
    /\ scopes = <<>>
    /\ heap = <<leaf>> \o Chain(k, tail)
    /\ targets = InitTargets
    /\ resources = <<>>
    /\ lastOp = NoOp

\* The values eval_vars is applied to: plain data of every container shape,
\* the same shapes holding the leaf, nests of lists around an int and around
\* the leaf, the head of the chain, and functions.
Shapes(items) ==
  {ListV(items), TupleV(items), NamedTupleV(items), FrozenSetV(Dedup(items)),
   SetV(Dedup(items)), DictV([i \in 1..Len(items) |-> i], items)}
PlainVals ==
  {IntV(3), NoneV,
   ListV(<<IntV(3), DictV(<<1>>, <<IntV(5)>>), TupleV(<<IntV(7), IntV(3)>>)>>)}
  \cup Shapes(<<IntV(5), IntV(8)>>)
PlaceholderVals ==
  {PhV(1), PhV(2), ListV(<<PhV(2)>>)} \cup Shapes(<<PhV(1), IntV(8), PhV(1)>>)
FunctionVals == {FnV(1), ListV(<<FnV(1), FnV(3)>>)}
NestVals == {Nest(n, PhV(1)) : n \in 1..MaxNest} \cup {Nest(MaxNest, IntV(3))}
EvalVals == PlainVals \cup PlaceholderVals \cup FunctionVals \cup NestVals
Depths == {0, 2, DefaultDepth}

\* eval_vars(ctx, val, depth=depth), called from outside.
eval_vars_call(ctx, val, depth) ==
  /\ Refs(val) \subseteq HeapIds
  /\ LET r == eval_vars(heap, targets, ctx, val, depth) IN
     lastOp' = [NoOp EXCEPT !.op = "eval_vars", !.ctx = ctx, !.arg = val,
                  !.depth = depth, !.val = r.val, !.calls = r.calls,
                  !.outcome = Outcome(r.err)]
  /\ UNCHANGED <<scopes, heap, targets, resources>>

NextEval ==
  \/ \E val \in EvalVals, depth \in Depths : eval_vars_call(ObjT, val, depth)
  \/ \E v \in WriteVals : value_set(1, v)

SpecEval == InitEval /\ [][NextEval]_vars

\* SpecCycle: eval_vars over two Variables that are assigned placeholders
\* and lists of placeholders, themselves included.
InitCycle ==
  /\ scopes = <<>>
  /\ heap = <<NewVariable("value", 0), NewVariable("a2", 0)>>
  /\ targets = InitTargets
  /\ resources = <<>>
  /\ lastOp = NoOp
CycleVals == {IntV(5), PhV(1), PhV(2), ListV(<<PhV(1)>>)}
CycleArgs == {PhV(1), PhV(2), ListV(<<PhV(1)>>), ListV(<<PhV(2)>>)}

NextCycle ==
  \/ \E p \in HeapIds, v \in CycleVals : value_set(p, v)
  \/ \E val \in CycleArgs, depth \in Depths : eval_vars_call(ObjT, val, depth)

SpecCycle == InitCycle /\ [][NextCycle]_vars

\* SpecChild: a scope and its child, each constructed on a target of its
\* own; placeholders are requested from either while it is open, written,
\* and the scopes are closed in any order.
InitChild ==
  \E t \in {ObjT, DictT} :
    InitState(<<NewScope("VariableContext", ObjT, 0, "plain"),
                NewScope("VariableContext", t, 1, "plain")>>)

NextChild ==
  \/ \E s \in ScopeIds, name \in Names :
       ~scopes[s].closed /\ variable(s, <<name>>, TRUE)
  \/ \E s \in ScopeIds, name \in Names :
       ~scopes[s].closed /\ attribute(s, <<name>>, TRUE)
  \/ \E p \in HeapIds, v \in WriteVals : value_set(p, v)
  \/ \E s \in ScopeIds : scope_close(s)

SpecChild == InitChild /\ [][NextChild]_vars

\* SpecShare: the same two scopes, with every placeholder requested through
\* the child while the child is open.
NextShare ==
  \/ \E name \in Names : ~scopes[2].closed /\ variable(2, <<name>>, TRUE)
  \/ \E name \in Names : ~scopes[2].closed /\ attribute(2, <<name>>, TRUE)
  \/ \E p \in HeapIds, v \in WriteVals : value_set(p, v)
  \/ \E s \in ScopeIds : scope_close(s)

SpecShare == InitChild /\ [][NextShare]_vars

\* ----------------------------------------------------------------- claims
LookupOps == {"variable", "variables", "attribute", "attributes"}
PipelineOps == {"pipeline", "vctx.pipeline"}
PipelineReturned == lastOp.op \in PipelineOps /\ lastOp.outcome = "ok"

\* The calls a pipeline made from its own loop, and those made for it by
\* eval_vars.
IsLoopCall(c) == c.by = "pipeline"
IsEvalCall(c) == c.by = "eval_vars"
LoopCalls == SelectSeq(lastOp.calls, IsLoopCall)
EvalCalls == SelectSeq(lastOp.calls, IsEvalCall)
LastReturn ==
  IF lastOp.steps = <<>> THEN NoneV
  ELSE StepDef(lastOp.steps[Len(lastOp.steps)].n).val
Resolved(ctx, v) == eval_vars(heap, targets, ctx, v, DefaultDepth)

\* C1 as stated: a pipeline that returns has called every member step
\* exactly once, in list order, each with the same ctx, and returns
\* eval_vars(ctx, return value of the last step); with no steps it calls
\* nothing and returns None.
C1_EveryStepCalledOnce ==
  PipelineReturned =>
    /\ Len(lastOp.calls) = Len(lastOp.steps)
    /\ \A i \in 1..Len(lastOp.calls) :
         lastOp.calls[i].fn = lastOp.steps[i].n /\ lastOp.calls[i].ctx = lastOp.ctx
    /\ lastOp.val = Resolved(lastOp.ctx, LastReturn).val
    /\ (lastOp.steps = <<>> => lastOp.val = NoneV)

\* C1 amended: a pipeline that returns has called, from its loop, every
\* member step exactly once, in list order, each with the same ctx; it
\* returns eval_vars(ctx, return value of the last step), whatever the earlier
\* steps returned; every further call is one that eval_vars made, with the
\* same ctx, of a callable it met in that last return value (which may be a
\* member step); with no steps nothing is called and None is returned.
C1_PipelineRunsStepsInOrder ==
  PipelineReturned =>
    /\ Len(LoopCalls) = Len(lastOp.steps)
    /\ \A i \in 1..Len(LoopCalls) : LoopCalls[i].fn = lastOp.steps[i].n
    /\ \A i \in 1..Len(lastOp.calls) : lastOp.calls[i].ctx = lastOp.ctx
    /\ lastOp.calls = LoopCalls \o EvalCalls
    /\ lastOp.val = Resolved(lastOp.ctx, LastReturn).val
    /\ EvalCalls = Resolved(lastOp.ctx, LastReturn).calls
    /\ (lastOp.steps = <<>> => lastOp.val = NoneV /\ lastOp.calls = <<>>)

\* A two-step pipeline whose last step returned a placeholder has returned
\* the placeholder's value.
C1_Witness ==
  /\ PipelineReturned
  /\ lastOp.steps = <<FnV(2), FnV(3)>>
  /\ lastOp.val.k = "int"

\* C2: a lookup made on a closed scope fails with a usage error, returning
\* no placeholder.
C2_ClosedScopeRejectsLookups ==
  (lastOp.op \in LookupOps /\ scopes[lastOp.s].closed) =>
    /\ lastOp.outcome # "ok"
    /\ \A i \in 1..Len(lastOp.ret) : lastOp.ret[i] = 0

\* C3: once the scope that created a placeholder is closed, every read and
\* every write of the placeholder's value fails.
C3_NoAccessAfterClose ==
  (lastOp.op \in {"get", "set"} /\ scopes[heap[lastOp.p].owner].closed) =>
    lastOp.outcome # "ok"

\* C4: close() raises nothing and leaves the registry empty and closed true,
\* whatever was requested from the scope before, and also when repeated.
C4_CloseEmptiesRegistry ==
  lastOp.op = "close" =>
    /\ lastOp.outcome = "ok"
    /\ scopes[lastOp.s].vars = <<>>
    /\ scopes[lastOp.s].closed

\* C5: when control has left the body of a with-statement, the scope is
\* closed and its registry empty, and an exception of the body has
\* propagated.
C5_WithAlwaysCloses ==
  lastOp.op = "leave with" =>
    /\ scopes[lastOp.s].closed
    /\ scopes[lastOp.s].vars = <<>>
    /\ (lastOp.how = "raise" => lastOp.outcome = "BodyError")
    /\ (lastOp.how # "raise" => lastOp.outcome = "ok")

\* C6: a resource acquired for a Resource placeholder of a scope is not
\* released while the scope is open and has been released exactly once when
\* the scope is closed.
C6_ResourceReleasedOnceAtClose ==
  \A r \in 1..Len(resources) :
    resources[r].entered = 1 =>
      resources[r].released =
        IF scopes[resources[r].scope].closed THEN 1 ELSE 0

\* C7: constructing a Resource from a closeable or a context manager enters
\* it exactly once and succeeds.
C7_ResourceConstructs ==
  \A r \in 1..Len(resources) :
    resources[r].kind # "other" =>
      resources[r].entered = 1 /\ resources[r].outcome = "ok"

RECURSIVE Ancestors(_, _)
Ancestors(S, s) ==
  IF S[s].parent = 0 THEN {}
  ELSE {S[s].parent} \cup Ancestors(S, S[s].parent)

\* The names registered nowhere in the scope or its ancestors.
Unregistered(S, s, name) ==
  \A a \in {s} \cup Ancestors(S, s) : ~InReg(S[a], name)

\* The step just taken is a lookup call.
IsLookup(ops) == lastOp'.op \in ops /\ vars' # vars

\* C8: no lookup on a child scope changes the registry of an ancestor.
C8_ChildNeverMutatesAncestors ==
  [][IsLookup(LookupOps) =>
       \A a \in Ancestors(scopes, lastOp'.s) : scopes'[a].vars = scopes[a].vars]_vars

\* C9: a lookup with create=False of names registered neither in the scope
\* nor in an ancestor returns None for them and changes no registry.
C9_NoCreateReturnsAbsent ==
  [][(/\ IsLookup(LookupOps)
      /\ ~lastOp'.create
      /\ \A i \in 1..Len(lastOp'.names) :
           Unregistered(scopes, lastOp'.s, lastOp'.names[i]))
     => /\ \A i \in 1..Len(lastOp'.ret) : lastOp'.ret[i] = 0
        /\ scopes' = scopes]_vars

\* C10: on an open scope, attribute(name) and attributes(name) of a name
\* registered nowhere in the chain return an Attribute bound to the scope's
\* target, whose value reads as the target's field.
C10_AttributesBoundToTarget ==
  [][(/\ IsLookup({"attribute", "attributes"})
      /\ lastOp'.create
      /\ ~scopes[lastOp'.s].closed)
     => \A i \in 1..Len(lastOp'.names) :
          Unregistered(scopes, lastOp'.s, lastOp'.names[i]) =>
            LET p == lastOp'.ret[i]
                t == scopes[lastOp'.s].target IN
            /\ p # 0
            /\ heap'[p].kind = "Attribute"
            /\ heap'[p].target = t
            /\ heap'[p].name = lastOp'.names[i]
            /\ (targets[t].fields[lastOp'.names[i]] # Absent =>
                  get_value(heap', targets', p) =
                    Ret(targets[t].fields[lastOp'.names[i]]))]_vars

\* The Variables there are, and the step just taken seen as a call.
IsVariable(H, p) == H[p].kind = "Variable"
IsAttribute(H, p) == H[p].kind = "Attribute"
Did(op) == lastOp'.op = op /\ vars' # vars

\* C11: a Variable that a lookup has just created reads as unbound
\* (AttributeError); a write of v makes the Variable read as v, exactly as
\* written; a read reports the Variable's current value; and no call other than
\* a write to the Variable or a close() of the scope that owns it changes what
\* the Variable reads as.
C11_VariableReadsLastWrite ==
  [][/\ \A p \in 1..Len(heap') :
          IsVariable(heap', p) =>
            IF p > Len(heap)
            THEN get_value(heap', targets', p) = Raise("AttributeError")
            ELSE IF Did("set") /\ lastOp'.p = p
            THEN get_value(heap', targets', p) = Ret(lastOp'.arg)
            ELSE IF Did("close") /\ lastOp'.s = heap[p].owner
            THEN TRUE
            ELSE get_value(heap', targets', p) = get_value(heap, targets, p)
     /\ (Did("get") /\ IsVariable(heap, lastOp'.p)) =>
          /\ lastOp'.val = get_value(heap, targets, lastOp'.p).val
          /\ lastOp'.outcome = Outcome(get_value(heap, targets, lastOp'.p).err)]_vars

\* A Variable of an open scope that was written with a function reads as
\* that function.
C11_Witness ==
  /\ lastOp.op = "get"
  /\ IsVariable(heap, lastOp.p)
  /\ ~scopes[heap[lastOp.p].owner].closed
  /\ InReg(scopes[heap[lastOp.p].owner], heap[lastOp.p].name)
  /\ lastOp.outcome = "ok"
  /\ lastOp.val = FnV(3)

\* The step just taken is a successful write through the Attribute at p.
WroteAttribute(p) ==
  /\ Did("set")
  /\ lastOp'.p = p
  /\ IsAttribute(heap, p)
  /\ lastOp'.outcome = "ok"

\* C17: a write through an Attribute stores in the target the result of
\* eval_vars on the assigned value, and what is stored is not a placeholder.
C17_AttributeNeverStoresPlaceholder ==
  [][\A p \in HeapIds :
       WroteAttribute(p) =>
         LET x == targets'[heap[p].target].fields[heap[p].name] IN
         /\ x = eval_vars(heap, targets, heap[p].target, lastOp'.arg,
                          DefaultDepth).val
         /\ x.k # "ph"]_vars

Max(S) == CHOOSE x \in S : \A y \in S : y <= x

\* How deep a value is nested: a container counts one level above its
\* deepest element, a placeholder one level above its current value, and a
\* plain function is one level (it is called only while depth remains).
RECURSIVE Height(_)
Height(v) ==
  IF v.k = "ph"
  THEN LET r == get_value(heap, targets, v.n) IN
       1 + (IF r.err = "" THEN Height(r.val) ELSE 0)
  ELSE IF v.k \in Containers
  THEN 1 + Max({0} \cup {Height(v.items[i]) : i \in 1..Len(v.items)})
  ELSE IF v.k = "fn" THEN 1
  ELSE 0

\* A container of the kind of v, with the keys of v, holding items; a set
\* holds equal items once.
SameShape(v, items) ==
  [k |-> v.k, n |-> v.n,
   items |-> IF v.k \in {"set", "frozenset"} THEN Dedup(items) ELSE items,
   keys |-> v.keys]

\* v with every placeholder replaced, at any depth, by its resolved current
\* value, in the same container shapes; a plain function is replaced by what
\* it returns when `call` holds and is left in place otherwise.
RECURSIVE Substituted(_, _)
Substituted(v, call) ==
  IF v.k = "ph" THEN Substituted(get_value(heap, targets, v.n).val, call)
  ELSE IF v.k \in Containers
  THEN SameShape(v, [i \in 1..Len(v.items) |-> Substituted(v.items[i], call)])
  ELSE IF v.k = "fn" /\ call THEN StepDef(v.n).val
  ELSE v

\* v resolved down to level d and no further: what is at level d is left as
\* it is, a placeholder included.
RECURSIVE Truncated(_, _)
Truncated(v, d) ==
  IF d = 0 THEN v
  ELSE IF v.k = "ph"
  THEN Truncated(get_value(heap, targets, v.n).val, d - 1)
  ELSE IF v.k \in Containers
  THEN SameShape(v, [i \in 1..Len(v.items) |-> Truncated(v.items[i], d - 1)])
  ELSE IF v.k = "fn" THEN StepDef(v.n).val
  ELSE v

EvalReturned == lastOp.op = "eval_vars" /\ lastOp.outcome = "ok"
LeafReadable == get_value(heap, targets, 1).err = ""

\* C14 as stated: for a value nested no deeper than the depth, eval_vars
\* returns the value rebuilt in the same shapes with every placeholder replaced
\* by its value and every other element unchanged.
C14_OnlyPlaceholdersReplaced ==
  (EvalReturned /\ Height(lastOp.arg) <= lastOp.depth) =>
    lastOp.val = Substituted(lastOp.arg, FALSE)

\* C14 amended: for a value nested no deeper than the depth, eval_vars
\* returns the value rebuilt in the same shapes with every placeholder replaced
\* by its resolved value, every plain function replaced by what it returns
\* when called with ctx, and every other element unchanged.
C14_RebuiltInSameShapes ==
  (EvalReturned /\ Height(lastOp.arg) <= lastOp.depth) =>
    lastOp.val = Substituted(lastOp.arg, TRUE)

\* A dict holding the leaf twice has been resolved to the dict of its values.
C14_Witness ==
  /\ EvalReturned
  /\ lastOp.depth = DefaultDepth
  /\ lastOp.arg = DictV(<<1, 2, 3>>, <<PhV(1), IntV(8), PhV(1)>>)
  /\ lastOp.val = DictV(<<1, 2, 3>>, <<IntV(5), IntV(8), IntV(5)>>)

\* C15 as stated: eval_vars of the head of a chain of placeholders returns
\* the fully resolved form of the value at its end, for every chain length.
C15_ChainResolvesFully ==
  (EvalReturned /\ lastOp.arg.k = "ph" /\ lastOp.depth = DefaultDepth
     /\ LeafReadable) =>
    lastOp.val = Substituted(lastOp.arg, TRUE)

\* C15 amended: the same, for the chains whose length plus the nesting of
\* the value at the end is no more than the depth.
C15_ChainResolvesWithinDepth ==
  (EvalReturned /\ lastOp.arg.k = "ph" /\ lastOp.depth = DefaultDepth
     /\ LeafReadable /\ Height(lastOp.arg) <= DefaultDepth) =>
    lastOp.val = Substituted(lastOp.arg, TRUE)

\* The head of a chain of at least three placeholders that ends in a list
\* holding the leaf has been resolved to the list of values.
C15_Witness ==
  /\ EvalReturned
  /\ lastOp.depth = DefaultDepth
  /\ lastOp.arg = PhV(2)
  /\ Len(heap) >= 4
  /\ lastOp.val = ListV(<<IntV(5), IntV(8)>>)

\* C16: with the default depth, a value nested deeper than 10 levels comes
\* back, without an error, resolved down to level 10 and no further: the
\* placeholder at that level is returned as it is.
C16_DepthCutoff ==
  (lastOp.op = "eval_vars" /\ lastOp.depth = DefaultDepth /\ LeafReadable
     /\ Height(lastOp.arg) > DefaultDepth) =>
    /\ lastOp.outcome = "ok"
    /\ lastOp.val = Truncated(lastOp.arg, DefaultDepth)

\* ---------------------------------------------------- curried steps
CurriedCall == lastOp.op = "step" /\ lastOp.steps[1].k = "curry"
CurryCalls == {i \in 1..Len(lastOp.calls) : lastOp.calls[i].by = "curry"}

Stored(H, T, p) ==
  IF IsVariable(H, p) THEN H[p].value
  ELSE T[H[p].target].fields[H[p].name]
StoreCalled ==
  /\ Did("step")
  /\ lastOp'.steps[1].k = "store"
  /\ lastOp'.outcome = "ok"
\* The source of the store step just called, what calling it (or taking it
\* as a literal) gives, and what eval_vars makes of that, in the state the
\* step was called in.
StoreSource == lastOp'.steps[1].items[1]
StoreOutcome ==
  IF Callable(StoreSource)
  THEN call_step(heap, targets, StoreSource, lastOp'.ctx, "store")
  ELSE Ret(StoreSource)
StoreResolved ==
  eval_vars(heap, targets, lastOp'.ctx, StoreOutcome.val, DefaultDepth)
CallsOf(f) == {i \in 1..Len(lastOp'.calls) : lastOp'.calls[i].fn = f}
CallsBy(who) == {i \in 1..Len(lastOp'.calls) : lastOp'.calls[i].by \in who}
StoreExample ==
  /\ Did("pipeline")
  /\ lastOp'.steps = <<StoreV(2, PhV(1))>>
  /\ IsAttribute(heap, 1) /\ IsAttribute(heap, 2)
  /\ heap[2].target # 0
  /\ get_value(heap, targets, 1) = Ret(IntV(7))

\* C19 as stated: store(p, s)(ctx) runs a callable s exactly once, writes
\* into p the value that eval_vars makes of the outcome, and returns that
\* value; pipeline(store(r, v)) with Attributes v (holding 7) and r returns
\* 7 and leaves 7 in the field of r.
C19_StoreRunsOnceAndWrites ==
  [][/\ StoreCalled =>
          /\ StoreSource.k \in {"fn", "curry"} =>
               Cardinality(CallsOf(StoreSource.n)) = 1
          /\ Stored(heap', targets', lastOp'.steps[1].n) = StoreResolved.val
          /\ lastOp'.val = StoreResolved.val
     /\ StoreExample =>
          /\ lastOp'.outcome = "ok"
          /\ lastOp'.val = IntV(7)
          /\ targets'[heap[2].target].fields[heap[2].name] = IntV(7)]_vars

\* C19 amended: store(p, s)(ctx) itself calls a callable s exactly once
\* (eval_vars may call it again when it is what the call returned), assigns
\* to p.value what eval_vars makes of the outcome, which a Variable keeps as
\* it is and an Attribute resolves once more, and returns what p then
\* holds; the example is as stated.
C19_StoreReturnsWhatItWrote ==
  [][/\ StoreCalled =>
          LET p == lastOp'.steps[1].n
              w == set_value(heap, targets, p, StoreResolved.val) IN
          /\ StoreSource.k \in {"fn", "curry"} =>
               /\ Cardinality(CallsBy({"store", "curry"})) = 1
               /\ CallsBy({"store", "curry"}) \subseteq CallsOf(StoreSource.n)
          /\ heap' = w.heap
          /\ targets' = w.targets
          /\ IsVariable(heap, p) => Stored(heap', targets', p) = StoreResolved.val
          /\ lastOp'.val = Stored(heap', targets', p)
     /\ StoreExample =>
          /\ lastOp'.outcome = "ok"
          /\ lastOp'.val = IntV(7)
          /\ targets'[heap[2].target].fields[heap[2].name] = IntV(7)]_vars

\* pipeline(store(r, v)) has returned 7 with v and r Attributes of the
\* object, and the object holds 7 under the name of r.
C19_Witness ==
  /\ lastOp.op = "pipeline"
  /\ lastOp.steps = <<StoreV(2, PhV(1))>>
  /\ lastOp.val = IntV(7)
  /\ Len(heap) = 2
  /\ IsAttribute(heap, 1) /\ IsAttribute(heap, 2)
  /\ heap[1].name = "value" /\ heap[2].name = "a2"
  /\ targets[ObjT].fields["a2"] = IntV(7)

\* ------------------------------------------------- initial variables
\* C20: constructing a PipelineContext, directly or through context(...),
\* with an initial variable named target, parent, _variables or closed
\* raises ValueError; with no such name the construction succeeds and the
\* context holds the supplied value under every initial name, which is what
\* attribute(name) reads.
C20_ReservedNamesRefused ==
  lastOp.op \in {"with context", "PipelineContext"} =>
    IF \E i \in 1..Len(lastOp.names) : lastOp.names[i] \in Reserved
    THEN lastOp.outcome = "ValueError"
    ELSE /\ lastOp.outcome = "ok"
         /\ \A i \in 1..Len(lastOp.names) :
              targets[SelfT(lastOp.s)].fields[lastOp.names[i]] = IntV(5)

\* --------------------------------------------------- or_, and_, if_
\* What a condition of SpecCond gives: the conditions true and the function
\* that returns 7 hold, false and the function that returns None do not,
\* and function 4 raises.
Holds(c) == c \in {CurryV(8, <<>>, <<>>), FnV(1)}
Fails(c) == c \in {CurryV(9, <<>>, <<>>), CurryV(6, <<>>, <<>>)}
CombinedCall == lastOp.op = "step" /\ lastOp.steps[1].k \in {"or_", "and_"}
\* The conditions that decide: the true ones for or_, the false ones for
\* and_, and in both the ones that raise.
Stops(c) ==
  IF lastOp.steps[1].k = "or_" THEN ~Fails(c) ELSE ~Holds(c)
\* How many conditions are reached: up to the first that stops, or all.
Reached ==
  LET cs == lastOp.steps[1].items
      S == {i \in 1..Len(cs) : Stops(cs[i])} IN
  IF S = {} THEN Len(cs) ELSE CHOOSE i \in S : \A j \in S : i <= j

\* C21: or_(c1..cn)(ctx) and and_(c1..cn)(ctx) call the conditions from
\* left to right, each once with ctx, up to the first true one (or_) or the
\* first false one (and_) and none after it; or_ gives True when it met a
\* true condition and False otherwise, and_ gives False when it met a false
\* one and True otherwise, so or_() is False and and_() is True; a
\* condition that raises ends the call with its exception.
C21_ShortCircuit ==
  CombinedCall =>
    LET cs == lastOp.steps[1].items
        last == IF Reached = 0 THEN NoneV ELSE cs[Reached] IN
    /\ Len(lastOp.calls) = Reached
    /\ \A i \in 1..Reached :
         /\ lastOp.calls[i].fn = cs[i].n
         /\ lastOp.calls[i].ctx = lastOp.ctx
    /\ IF Reached > 0 /\ ~Holds(last) /\ ~Fails(last)
       THEN lastOp.outcome = "RuntimeError"
       ELSE /\ lastOp.outcome = "ok"
            /\ lastOp.steps[1].k = "or_" =>
                 lastOp.val = BoolV(\E i \in 1..Len(cs) : Holds(cs[i]))
            /\ lastOp.steps[1].k = "and_" =>
                 lastOp.val = BoolV(\A i \in 1..Len(cs) : Holds(cs[i]))

\* or_ has given True after the one call of a condition that returns 7,
\* without calling the condition behind it, which raises.
C21_Witness ==
  /\ CombinedCall
  /\ lastOp.steps[1] = OrV(<<FnV(1), FnV(4)>>)
  /\ lastOp.val = BoolV(TRUE)
  /\ Len(lastOp.calls) = 1

IfCall == lastOp.op = "step" /\ lastOp.steps[1].k = "if_"
\* The branch if_ selects, once the condition has returned.
Selected ==
  IF Holds(lastOp.steps[1].items[1]) THEN lastOp.steps[1].items[2]
  ELSE lastOp.steps[1].items[3]
\* What running the selected branch gives: nothing and None for a missing
\* branch, the pipeline of the steps for a list, the call of the step
\* otherwise.
BranchRun ==
  CASE Selected.k = "none" -> Ret(NoneV)
    [] Selected.k = "list" ->
         run_pipeline(heap, targets, Selected.items, lastOp.ctx)
    [] OTHER ->
         [StepDef(Selected.n) EXCEPT
            !.calls = <<CallRec(Selected.n, lastOp.ctx, "if_", <<>>, <<>>)>>]

\* C25: if_(cond, then, else)(ctx) calls cond once, first; when cond
\* returns, it runs the then-branch if cond is true and the else-branch if
\* not, and nothing of the other branch: the calls after cond's and the
\* result are those of the selected branch, a list being run as the
\* pipeline of its steps, and a missing branch gives no call and None.
C25_OneBranchRuns ==
  IfCall =>
    LET c == lastOp.steps[1].items[1] IN
    /\ lastOp.calls # <<>>
    /\ lastOp.calls[1].fn = c.n /\ lastOp.calls[1].ctx = lastOp.ctx
    /\ IF ~Holds(c) /\ ~Fails(c)
       THEN Len(lastOp.calls) = 1 /\ lastOp.outcome = "RuntimeError"
       ELSE /\ Tail(lastOp.calls) = BranchRun.calls
            /\ lastOp.outcome = Outcome(BranchRun.err)
            /\ lastOp.val = BranchRun.val

\* if_ with a false condition has run its else-branch, a list of two steps,
\* as a pipeline, and not its then-branch.
C25_Witness ==
  /\ IfCall
  /\ lastOp.steps[1] =
       IfV(CurryV(9, <<>>, <<>>), FnV(4), ListV(<<FnV(1), FnV(2)>>))
  /\ lastOp.outcome = "ok"
  /\ lastOp.val = FnV(2)
  /\ Len(lastOp.calls) = 4

\* ------------------------------------------------------ cyclic values
\* C22: eval_vars with a depth of 0 or more comes back from every input,
\* a Variable whose values lead back to itself and a list that holds itself
\* through a placeholder included: the recursion never runs away.
C22_EvalVarsTerminates ==
  (lastOp.op = "eval_vars" /\ lastOp.depth >= 0) =>
    lastOp.outcome # "RecursionError"

\* --------------------------------------------------- plain callables
\* The one call eval_vars makes of function f.
EvalCall(f) == CallRec(f, lastOp.ctx, "eval_vars", <<>>, <<>>)
AllFunctions(items) == \A i \in 1..Len(items) : items[i].k = "fn"

\* C23: a plain function that eval_vars meets while depth is left, as the
\* value itself or as an element of a list, is called once with ctx and
\* nothing else, and what it returns takes its place as it is: a
\* placeholder it returns is not resolved, a function it returns is not
\* called.
C23_CallAndStop ==
  /\ (lastOp.op = "eval_vars" /\ lastOp.arg.k = "fn" /\ lastOp.depth >= 1) =>
       /\ lastOp.calls = <<EvalCall(lastOp.arg.n)>>
       /\ lastOp.outcome = Outcome(StepDef(lastOp.arg.n).err)
       /\ lastOp.val = StepDef(lastOp.arg.n).val
  /\ (/\ lastOp.op = "eval_vars"
      /\ lastOp.arg.k = "list" /\ AllFunctions(lastOp.arg.items)
      /\ lastOp.depth >= 2) =>
       /\ lastOp.calls =
            [i \in 1..Len(lastOp.arg.items) |-> EvalCall(lastOp.arg.items[i].n)]
       /\ lastOp.outcome = "ok"
       /\ lastOp.val =
            ListV([i \in 1..Len(lastOp.arg.items) |->
                     StepDef(lastOp.arg.items[i].n).val])

\* A list of two functions has been resolved with the default depth while
\* the leaf was readable: the placeholder the second one returned is in the
\* result, unresolved.
C23_Witness ==
  /\ EvalReturned
  /\ lastOp.depth = DefaultDepth
  /\ LeafReadable
  /\ lastOp.arg = ListV(<<FnV(1), FnV(3)>>)
  /\ lastOp.val = ListV(<<IntV(7), PhV(1)>>)
  /\ Len(lastOp.calls) = 2

\* The names of a registry, in the order of its entries.
RegNames(sc) == [i \in 1..Len(sc.vars) |-> sc.vars[i].name]

\* The names of a call that the registry did not hold, each once, in the
\* order the call gives them.
RECURSIVE FirstRequests(_, _)
FirstRequests(known, names) ==
  IF names = <<>> THEN <<>>
  ELSE IF \E i \in 1..Len(known) : known[i] = Head(names)
       THEN FirstRequests(known, Tail(names))
       ELSE <<Head(names)>> \o
            FirstRequests(Append(known, Head(names)), Tail(names))

\* C24: after a lookup on an open scope, every requested name is in the
\* scope's registry under the placeholder returned for it, a name that was
\* registered before is answered with the placeholder registered then, and
\* the registry has grown by the new names, one entry each, in the order of
\* their first request.
C24_OneEntryPerName ==
  [][(/\ IsLookup(LookupOps)
      /\ lastOp'.create
      /\ ~scopes[lastOp'.s].closed)
     => LET s == lastOp'.s
            names == lastOp'.names IN
        /\ \A i \in 1..Len(names) :
             /\ lastOp'.ret[i] # 0
             /\ InReg(scopes'[s], names[i])
             /\ RegGet(scopes'[s], names[i]) = lastOp'.ret[i]
             /\ InReg(scopes[s], names[i]) =>
                  lastOp'.ret[i] = RegGet(scopes[s], names[i])
        /\ RegNames(scopes'[s]) =
             RegNames(scopes[s]) \o FirstRequests(RegNames(scopes[s]), names)]_vars

\* The Attributes in the registry of a scope.
RegisteredAttributes(sc, H) ==
  {sc.vars[i].ph : i \in {j \in 1..Len(sc.vars) : H[sc.vars[j].ph].kind = "Attribute"}}

\* C26: close() of an open scope raises nothing, whatever its target is and
\* whether or not the fields of its Attributes exist, and leaves the
\* registry empty, closed true and every Attribute that was registered
\* without a target.
C26_CloseDetachesEveryAttribute ==
  [][(lastOp'.op = "close" /\ ~scopes[lastOp'.s].closed)
     => /\ lastOp'.outcome = "ok"
        /\ scopes'[lastOp'.s].vars = <<>>
        /\ scopes'[lastOp'.s].closed
        /\ \A p \in RegisteredAttributes(scopes[lastOp'.s], heap) :
             heap'[p].target = 0]_vars

\* The operations of a scope, which are attributes of its class.
Operations == {"variable", "attribute", "pipeline", "close"}

\* C27: no PipelineContext that was constructed holds an initial variable
\* under the name of one of its operations, and when control has left the
\* with-block of a context the context is closed.
C27_OperationsNeverShadowed ==
  /\ \A s \in ScopeIds :
       scopes[s].cls = "PipelineContext" =>
         \A f \in Operations \cap FieldNames :
           targets[scopes[s].target].fields[f] = Absent
  /\ (lastOp.op = "leave with" /\ scopes[lastOp.s].cls = "PipelineContext") =>
       scopes[lastOp.s].closed

\* The placeholders constructed in a scope.
OwnedBy(H, a) == {p \in 1..Len(H) : H[p].owner = a}

\* C28: close() of a scope that has a parent leaves the registry and the
\* closed flag of every ancestor as they were, and every placeholder of an
\* ancestor reads after the close what it read before and takes a write as
\* it did before.
C28_CloseLeavesAncestorsAlone ==
  [][lastOp'.op = "close"
     => \A a \in Ancestors(scopes, lastOp'.s) :
          /\ scopes'[a].vars = scopes[a].vars
          /\ scopes'[a].closed = scopes[a].closed
          /\ \A p \in OwnedBy(heap, a) :
               /\ get_value(heap', targets', p) = get_value(heap, targets, p)
               /\ set_value(heap', targets', p, IntV(5)).r
                    = set_value(heap, targets, p, IntV(5)).r]_vars

\* The child has been closed, losing a placeholder of its own, while its
\* parent is open and holds a placeholder that reads the value written.
C28_Witness ==
  /\ lastOp.op = "close"
  /\ lastOp.s = 2
  /\ lastOp.outcome = "ok"
  /\ scopes[2].closed
  /\ ~scopes[1].closed
  /\ OwnedBy(heap, 2) # {}
  /\ \E p \in OwnedBy(heap, 1) :
       /\ InReg(scopes[1], heap[p].name)
       /\ get_value(heap, targets, p) = Ret(IntV(5))

\* The placeholders constructed so far under a name.
Named(H, name) == {p \in 1..Len(H) : H[p].name = name}

\* C30: where every placeholder was requested from one scope, a name
\* requested again from that scope while it is open, by variable() or by
\* attribute(), is answered with the placeholder of the first request, so
\* no name ever has two placeholders, and no placeholder changes its kind.
C30_OneRegistryForBothKinds ==
  [][(/\ IsLookup({"variable", "attribute"})
      /\ ~scopes[lastOp'.s].closed)
     => /\ \A p \in Named(heap, lastOp'.names[1]) : lastOp'.ret = <<p>>
        /\ \A p \in 1..Len(heap) : heap'[p].kind = heap[p].kind]_vars

\* ------------------------------------------- store and the destination
\* A store step has just been called with the object that the destination,
\* if it is an Attribute, is bound to.
StoreStepCalled ==
  /\ Did("step")
  /\ lastOp'.steps[1].k = "store"
  /\ IsAttribute(heap, lastOp'.steps[1].n) =>
       heap[lastOp'.steps[1].n].target = lastOp'.ctx

\* The heap with the placeholder at p replaced by a new one of the other
\* kind under the same name: an Attribute of ctx for a Variable, a Variable
\* for an Attribute.
OtherKind(H, p, ctx) ==
  [H EXCEPT ![p] = IF @.kind = "Variable"
                   THEN NewAttribute(ctx, @.name, @.owner)
                   ELSE NewVariable(@.name, @.owner)]

\* What a store into p gave: the value returned, the exception, the calls
\* made, and what p holds afterwards.
StoreGave(r, p) ==
  [val |-> r.val, outcome |-> Outcome(r.err), calls |-> r.calls,
   stored |-> IF r.err = "" THEN Stored(r.heap, r.targets, p) ELSE Absent]

\* The store step just called gave what the same step gives with a
\* destination of the other kind.
SameWithOtherKind ==
  [val |-> lastOp'.val, outcome |-> lastOp'.outcome, calls |-> lastOp'.calls,
   stored |-> IF lastOp'.outcome = "ok"
              THEN Stored(heap', targets', lastOp'.steps[1].n) ELSE Absent]
  = StoreGave(store_(OtherKind(heap, lastOp'.steps[1].n, lastOp'.ctx), targets,
                     lastOp'.steps[1].n, StoreSource, lastOp'.ctx),
              lastOp'.steps[1].n)

\* eval_vars leaves what it made of the outcome as it is, calling nothing.
ResolvedIsFinal ==
  /\ StoreOutcome.err = ""
  /\ StoreResolved.err = ""
  /\ eval_vars(heap, targets, lastOp'.ctx, StoreResolved.val, DefaultDepth)
       = Ret(StoreResolved.val)

\* C29 as stated: store(p, s)(ctx) returns the same value, leaves the same
\* value in p and makes the same calls whether p is a Variable or an
\* Attribute of ctx.
C29_DestinationKindIrrelevant ==
  [][StoreStepCalled => SameWithOtherKind]_vars

\* C29 amended: store(p, s)(ctx) returns the same value, leaves the same
\* value in p and makes the same calls whether p is a Variable or an
\* Attribute of ctx, provided the value that eval_vars made of the outcome
\* of s is one that eval_vars returns as it is without calling anything;
\* and it raises the same exception when s or its resolution raises.
C29_SameWhenResolvedIsFinal ==
  [][(/\ StoreStepCalled
      /\ (StoreOutcome.err = "" /\ StoreResolved.err = "") => ResolvedIsFinal)
     => SameWithOtherKind]_vars

\* store(a, f)(ctx) with an Attribute a of ctx and a function f that
\* returns 7 has called f once, returned 7 and left 7 in the field.
C29_Witness ==
  /\ lastOp.op = "step"
  /\ lastOp.steps = <<StoreV(2, FnV(1))>>
  /\ lastOp.outcome = "ok"
  /\ IsAttribute(heap, 2)
  /\ heap[2].target = lastOp.ctx
  /\ lastOp.val = IntV(7)
  /\ Len(lastOp.calls) = 1
  /\ targets[lastOp.ctx].fields[heap[2].name] = IntV(7)

====
